---- MODULE Spec2Model ----
(***************************************************************************)
(* Model of the docusense ingestion and retrieval pipeline                 *)
(* (backend/app/api/ingest.py, backend/app/core/chunking.py,               *)
(* backend/app/core/embeddings.py, backend/app/core/retrieval.py,          *)
(* backend/app/api/query.py, backend/app/core/llm.py,                      *)
(* backend/app/models/database.py, backend/app/main.py).                   *)
(*                                                                         *)
(* Spec        the ingestion side: upload_document, ingest_url, the        *)
(*             background task process_document step by step (one action   *)
(*             per commit), and a process restart.                         *)
(* SpecSearch  the retrieval side: HybridRetriever.hybrid_search applied   *)
(*             to bounded vector / BM25 rankings.                          *)
(* SpecChunk   the chunker: DocumentChunker.chunk_text and chunk_markdown  *)
(*             applied to bounded texts, and the rows stored from them.    *)
(* SpecAsk     the query side: concurrent calls of ask_question on the     *)
(*             shared HybridRetriever.                                     *)
(***************************************************************************)
EXTENDS Integers, Sequences, FiniteSets, TLC

(***************************************************************************)
(* Bounds of the model (not program constants).                            *)
(***************************************************************************)
MaxSubmissions == 2
\* texts are numbered 0..MaxText; text 0 is the empty text
MaxText == 1
\* the retrieval side works on chunk ids 1..MaxChunk and top_k in 1..MaxTopK
MaxChunk == 3
MaxTopK == 3
\* the chunker side works on texts of at most MaxParas paragraphs of at most
\* MaxSents sentences
MaxParas == 2
MaxSents == 2
\* the query side handles at most MaxRequests calls of ask_question
MaxRequests == 2

(***************************************************************************)
(* Program constants.                                                      *)
(***************************************************************************)
chunk_size == 800
chunk_overlap == 200
\* "k = 60  # RRF parameter"
k_rrf == 60

VARIABLES
    documents,      \* table documents: sequence of rows, id = position
    ingest_jobs,    \* table ingest_jobs: sequence of rows, id = position
    chunks,         \* table chunks: set of committed rows
    tasks,          \* the background task of each job: position and locals
    submissions,    \* history of the submission requests handled so far
    sq,             \* state of the retrieval side (SpecSearch)
    chunker,        \* state of the chunker side (SpecChunk)
    ask             \* state of the query side (SpecAsk)

vars == <<documents, ingest_jobs, chunks, tasks, submissions, sq, chunker, ask>>

\* the collections that exist (created through POST /api/collections before
\* the runs of the model).  ingest.py uses collection_id only as a foreign
\* key: the duplicate query of upload_document does not filter on it.
collections == {1}
Texts == 0..MaxText
NoChecksum == 0

(***************************************************************************)
(* Parser port.                                                            *)
(***************************************************************************)
\* A paragraph is a sequence of sentence token counts; a text is a sequence
\* of paragraphs.  Text 0 is empty, text t has 2 * t one-sentence paragraphs
\* of 500 tokens, so that every non-empty text gives several chunks.
TextOf(t) == [p \in 1..(2 * t) |-> <<500>>]

\* SHA-256 of the parsed text: injective on the texts of the model, never
\* the NULL checksum.
calculate_checksum(t) == 1000 + 7 * t

(***************************************************************************)
(* DocumentChunker.chunk_text (chunking.py).  A unit is one paragraph      *)
(* (s = 0) or one sentence of a split paragraph; the text of a chunk is    *)
(* the sequence of units joined into it.                                   *)
(***************************************************************************)
RECURSIVE Tokens(_)
\* count_tokens of the join of a sequence of units
Tokens(us) == IF us = <<>> THEN 0 ELSE Head(us).tokens + Tokens(Tail(us))

RECURSIVE SumSeq(_)
SumSeq(ns) == IF ns = <<>> THEN 0 ELSE Head(ns) + SumSeq(Tail(ns))

\* the chunk dictionary appended to chunks
MkChunk(acc, method) ==
    [text |-> acc.current_chunk,
     chunk_index |-> acc.chunk_index,
     token_count |-> acc.current_tokens,
     chunk_method |-> method,
     has_overlap |-> acc.chunk_index > 0]

\* one iteration of "for sentence in sentences"
SentenceStep(acc, u) ==
    IF acc.current_tokens + u.tokens > chunk_size
    THEN IF acc.current_chunk # <<>>
         THEN LET n == Len(acc.current_chunk)
                  last2 == SubSeq(acc.current_chunk, n - 1, n)
                  emitted == Append(acc.chunks, MkChunk(acc, "sentence_split"))
              IN IF chunk_overlap > 0 /\ n > 1
                 THEN [chunks |-> emitted,
                       current_chunk |-> last2 \o <<u>>,
                       current_tokens |-> Tokens(last2) + u.tokens,
                       chunk_index |-> acc.chunk_index + 1]
                 ELSE [chunks |-> emitted,
                       current_chunk |-> <<u>>,
                       current_tokens |-> u.tokens,
                       chunk_index |-> acc.chunk_index + 1]
         ELSE acc
    ELSE [acc EXCEPT !.current_chunk = Append(@, u),
                     !.current_tokens = @ + u.tokens]

RECURSIVE SentenceLoop(_, _, _, _)
SentenceLoop(acc, para, p, s) ==
    IF s > Len(para) THEN acc
    ELSE SentenceLoop(SentenceStep(acc, [p |-> p, s |-> s, tokens |-> para[s]]),
                      para, p, s + 1)

\* one iteration of "for para in paragraphs"
ParagraphStep(acc, para, p) ==
    IF para = <<>> THEN acc
    ELSE LET para_tokens == SumSeq(para)
             u == [p |-> p, s |-> 0, tokens |-> para_tokens]
         IN IF para_tokens > chunk_size
            THEN SentenceLoop(acc, para, p, 1)
            ELSE IF acc.current_tokens + para_tokens > chunk_size
                 THEN IF acc.current_chunk # <<>>
                      THEN LET n == Len(acc.current_chunk)
                               overlap == acc.current_chunk[n]
                               emitted == Append(acc.chunks,
                                                 MkChunk(acc, "paragraph_split"))
                           IN IF chunk_overlap > 0
                              THEN [chunks |-> emitted,
                                    current_chunk |-> <<overlap, u>>,
                                    current_tokens |-> overlap.tokens + para_tokens,
                                    chunk_index |-> acc.chunk_index + 1]
                              ELSE [chunks |-> emitted,
                                    current_chunk |-> <<u>>,
                                    current_tokens |-> para_tokens,
                                    chunk_index |-> acc.chunk_index + 1]
                      ELSE acc
                 ELSE [acc EXCEPT !.current_chunk = Append(@, u),
                                  !.current_tokens = @ + para_tokens]

RECURSIVE ParagraphLoop(_, _, _)
ParagraphLoop(acc, text, p) ==
    IF p > Len(text) THEN acc
    ELSE ParagraphLoop(ParagraphStep(acc, text[p], p), text, p + 1)

chunk_text(text) ==
    IF text = <<>> THEN <<>>
    ELSE LET acc == ParagraphLoop([chunks |-> <<>>, current_chunk |-> <<>>,
                                   current_tokens |-> 0, chunk_index |-> 0],
                                  text, 1)
         IN IF acc.current_chunk # <<>>
            THEN Append(acc.chunks, MkChunk(acc, "final_chunk"))
            ELSE acc.chunks

(***************************************************************************)
(* EmbeddingService.embed_batch (embeddings.py): one embedding per text;   *)
(* np.vstack of an empty list raises ValueError.                           *)
(***************************************************************************)
\* an embed_batch that returns an empty array for an empty list
embed_batch_raises_never(texts) == FALSE

embed_batch_raises(texts) == Len(texts) = 0

embed_batch(texts) == [i \in 1..Len(texts) |-> "embedding"]

(***************************************************************************)
(* Ingestion: the request handlers (ingest.py).  upload_document and       *)
(* ingest_url are "async def" without an await: in the single process each *)
(* runs to its return without interleaving with another handler, so each   *)
(* is one action.  BackgroundTasks.add_task queues process_document, which *)
(* runs after the response has been sent.                                  *)
(* Source types: an upload is modelled with source_type "text"; a "pdf"    *)
(* upload goes through the same lines of upload_document and is parsed in  *)
(* process_document by a parser that may raise, like "url".                *)
(***************************************************************************)
NoSq == [phase |-> "off"]
NoChunker == [phase |-> "off"]
NoAsk == [phase |-> "off"]

NewDocument(c, st, ck) ==
    [collection_id |-> c, source_type |-> st, checksum |-> ck]

\* IngestJob(id, collection_id, document_id, status="pending"); progress has
\* the column default 0, error_message and completed_at are NULL
NewJob(c, d) ==
    [collection_id |-> c, document_id |-> d, status |-> "pending",
     progress |-> 0, error_message |-> "", completed_at |-> FALSE]

\* the arguments of add_task(process_document, ...) and the task's locals
NewTask(content, st) ==
    [pc |-> "queued", content |-> content, source_type |-> st,
     raised_at |-> "none", chunks_data |-> <<>>, stages |-> <<>>]

\* existing = db.query(Document).filter(Document.checksum == checksum).first()
existing(ck) == \E d \in 1..Len(documents) : documents[d].checksum = ck

\* what upload_document stores in the checksum column
upload_checksum(t) == calculate_checksum(t)

\* Document(...) of ingest_url: no checksum argument, the column stays NULL
url_checksum(t) == NoChecksum

\* an ingest_url that parses the page inside the request handler
url_sync_stages_parse == {"parse"}

\* the stages that run inside the request handler, before its return
upload_sync_stages == {"parse", "dedup"}

url_sync_stages == {}

Submit(kind, c, t, st, ck, sync) ==
    LET d == Len(documents) + 1
        j == Len(ingest_jobs) + 1
    IN /\ documents' = Append(documents, NewDocument(c, st, ck))
       /\ ingest_jobs' = Append(ingest_jobs, NewJob(c, d))
       /\ tasks' = Append(tasks, NewTask(t, st))
       /\ submissions' = Append(submissions,
              [kind |-> kind, collection_id |-> c, text |-> t, job_id |-> j,
               documents_before |-> Len(documents), sync_stages |-> sync])
       /\ UNCHANGED <<chunks, sq, chunker, ask>>

\* an upload handler without the duplicate check
upload_rejects_never(t) == FALSE

\* "if existing: raise HTTPException(400)"
upload_rejects(t) == existing(upload_checksum(t))

\* POST /api/ingest/upload of a file whose parsed text is t
upload_document(c, t) ==
    /\ Len(submissions) < MaxSubmissions
    /\ c \in collections
    /\ IF upload_rejects(t)
       THEN /\ submissions' = Append(submissions,
                   [kind |-> "upload", collection_id |-> c, text |-> t,
                    job_id |-> 0, documents_before |-> Len(documents),
                    sync_stages |-> upload_sync_stages])
            /\ UNCHANGED <<documents, ingest_jobs, chunks, tasks, sq, chunker, ask>>
       ELSE Submit("upload", c, t, "text", upload_checksum(t), upload_sync_stages)

\* POST /api/ingest/url of a URL whose page parses to text t
ingest_url(c, t) ==
    /\ Len(submissions) < MaxSubmissions
    /\ c \in collections
    /\ Submit("url", c, t, "url", url_checksum(t), url_sync_stages)

(***************************************************************************)
(* process_document (ingest.py 34-102), one action per commit.             *)
(* The task works on its own SessionLocal() session (autocommit=False).    *)
(* A commit that raises leaves the session's transaction unusable until    *)
(* rollback(), which process_document never calls: every later use of the  *)
(* session raises.  "ok" below says whether the session is still usable    *)
(* when the exception handler runs.                                        *)
(***************************************************************************)
Jobs == 1..Len(ingest_jobs)

\* the handler's query and commit work only on a usable session
handler_can_write(ok) == ok

\* the status the handler writes
handler_status == "failed"

\* lines 95-102: except Exception as e: status = "failed", error_message =
\* str(e), commit.  The handler has no try of its own: when its query or
\* commit raises, the exception leaves process_document.
Handler(j, stage, msg, ok) ==
    LET ran == IF stage \in {"start", "complete"}
               THEN tasks[j].stages ELSE Append(tasks[j].stages, stage)
    IN \/ /\ handler_can_write(ok)
          /\ ingest_jobs' = [ingest_jobs EXCEPT ![j].status = handler_status,
                                                ![j].error_message = msg]
          /\ tasks' = [tasks EXCEPT ![j].pc = "returned",
                                    ![j].raised_at = stage, ![j].stages = ran]
       \/ /\ tasks' = [tasks EXCEPT ![j].pc = "raised",
                                    ![j].raised_at = stage, ![j].stages = ran]
          /\ UNCHANGED ingest_jobs

Goto(j, pc, stage) ==
    [tasks EXCEPT ![j].pc = pc, ![j].stages = Append(@, stage)]

\* a task that forgets to mark the job as processing
start_status_unset == "pending"

\* the progress values of the first two commits exchanged
progress_after_swapped(stage) ==
    CASE stage = "start" -> 30
      [] stage = "parse" -> 10
      [] stage = "chunk" -> 50
      [] stage = "embed" -> 80
      [] stage = "complete" -> 100

\* the status written by line 41
start_status == "processing"

\* the progress written with the commit that ends each step (lines 42, 55,
\* 61, 68, 89)
progress_after(stage) ==
    CASE stage = "start" -> 10
      [] stage = "parse" -> 30
      [] stage = "chunk" -> 50
      [] stage = "embed" -> 80
      [] stage = "complete" -> 100

\* lines 36-43: query the job, status = "processing", progress = 10, commit
Start(j) ==
    /\ tasks[j].pc = "queued"
    /\ \/ /\ ingest_jobs' = [ingest_jobs EXCEPT ![j].status = start_status,
                                                ![j].progress = progress_after("start")]
          /\ tasks' = [tasks EXCEPT ![j].pc = "parse"]
       \/ Handler(j, "start", "db error", FALSE)
    /\ UNCHANGED <<documents, chunks, submissions, sq, chunker, ask>>

\* parse_text and parse_markdown return their argument; parse_url and
\* parse_pdf fetch / read and may raise
parse_may_raise(st) == st \in {"url", "pdf"}

\* lines 45-56: parse, progress = 30, commit
Parse(j) ==
    /\ tasks[j].pc = "parse"
    /\ \/ /\ parse_may_raise(tasks[j].source_type)
          /\ Handler(j, "parse", "Error parsing", TRUE)
       \/ /\ ingest_jobs' = [ingest_jobs EXCEPT ![j].progress = progress_after("parse")]
          /\ tasks' = Goto(j, "chunk", "parse")
       \/ Handler(j, "parse", "db error", FALSE)
    /\ UNCHANGED <<documents, chunks, submissions, sq, chunker, ask>>

\* chunk_text returns [] for an empty text before it calls the tokenizer
\* (chunking.py lines 28-30); on other texts the tokenizer may raise
chunk_may_raise(text) == text # <<>>

\* lines 58-62: chunk_text, progress = 50, commit
Chunk(j) ==
    /\ tasks[j].pc = "chunk"
    /\ \/ /\ chunk_may_raise(TextOf(tasks[j].content))
          /\ Handler(j, "chunk", "tokenizer error", TRUE)
       \/ /\ ingest_jobs' = [ingest_jobs EXCEPT ![j].progress = progress_after("chunk")]
          /\ tasks' = [Goto(j, "embed", "chunk") EXCEPT
                          ![j].chunks_data = chunk_text(TextOf(tasks[j].content))]
       \/ Handler(j, "chunk", "db error", FALSE)
    /\ UNCHANGED <<documents, chunks, submissions, sq, chunker, ask>>

\* lines 64-69: embed_batch, progress = 80, commit
Embed(j) ==
    /\ tasks[j].pc = "embed"
    /\ \/ /\ embed_batch_raises(tasks[j].chunks_data)
          /\ Handler(j, "embed", "need at least one array to concatenate", TRUE)
       \/ /\ ~embed_batch_raises(tasks[j].chunks_data)
          /\ \/ Handler(j, "embed", "model error", TRUE)
             \/ /\ ingest_jobs' = [ingest_jobs EXCEPT ![j].progress = progress_after("embed")]
                /\ tasks' = Goto(j, "persist", "embed")
             \/ Handler(j, "embed", "db error", FALSE)
    /\ UNCHANGED <<documents, chunks, submissions, sq, chunker, ask>>

\* the Chunk rows added by the loop of lines 72-83
ChunkRowSeq(d, cd) ==
    LET em == embed_batch(cd)
    IN [i \in 1..Len(cd) |->
           [document_id |-> d,
            chunk_index |-> cd[i].chunk_index,
            token_count |-> cd[i].token_count,
            embedding |-> em[i]]]

ChunkRows(d, cd) == {ChunkRowSeq(d, cd)[i] : i \in 1..Len(cd)}

\* a loop that commits after each db.add(chunk)
Persist_row_by_row(j) ==
    /\ tasks[j].pc = "persist"
    /\ LET missing == ChunkRows(ingest_jobs[j].document_id, tasks[j].chunks_data)
                          \ chunks
       IN IF missing = {}
          THEN /\ tasks' = Goto(j, "complete", "persist")
               /\ UNCHANGED <<ingest_jobs, chunks>>
          ELSE /\ \E row \in missing :
                      /\ row.chunk_index <= (CHOOSE m \in {r.chunk_index : r \in missing} :
                                                \A r \in missing : m <= r.chunk_index)
                      /\ chunks' = chunks \cup {row}
               /\ UNCHANGED <<ingest_jobs, tasks>>
    /\ UNCHANGED <<documents, submissions, sq, chunker, ask>>

\* lines 71-85: add every chunk, one commit
Persist(j) ==
    /\ tasks[j].pc = "persist"
    /\ \/ /\ chunks' = chunks \cup
                       ChunkRows(ingest_jobs[j].document_id, tasks[j].chunks_data)
          /\ tasks' = Goto(j, "complete", "persist")
          /\ UNCHANGED ingest_jobs
       \/ /\ Handler(j, "persist", "db error", FALSE)
          /\ UNCHANGED chunks
    /\ UNCHANGED <<documents, submissions, sq, chunker, ask>>

\* lines 87-93: status = "completed", progress = 100, commit, return
Complete(j) ==
    /\ tasks[j].pc = "complete"
    /\ \/ /\ ingest_jobs' = [ingest_jobs EXCEPT ![j].status = "completed",
                                                ![j].progress = progress_after("complete"),
                                                ![j].completed_at = TRUE]
          /\ tasks' = [tasks EXCEPT ![j].pc = "returned"]
       \/ Handler(j, "complete", "db error", FALSE)
    /\ UNCHANGED <<documents, chunks, submissions, sq, chunker, ask>>

(***************************************************************************)
(* Process restart (main.py): the queued and running background tasks of   *)
(* the old process are gone; module load creates the app and includes the  *)
(* routers, and no startup code reads or writes ingest_jobs.               *)
(***************************************************************************)
Ended(t) == t.pc \in {"returned", "raised", "killed"}

\* what start-up does to the rows of ingest_jobs: nothing
startup(jobs) == jobs

Restart ==
    /\ \E j \in Jobs : ~Ended(tasks[j])
    /\ tasks' = [j \in Jobs |-> IF Ended(tasks[j]) THEN tasks[j]
                                ELSE [tasks[j] EXCEPT !.pc = "killed"]]
    /\ ingest_jobs' = startup(ingest_jobs)
    /\ UNCHANGED <<documents, chunks, submissions, sq, chunker, ask>>

Init ==
    /\ documents = <<>>
    /\ ingest_jobs = <<>>
    /\ chunks = {}
    /\ tasks = <<>>
    /\ submissions = <<>>
    /\ sq = NoSq
    /\ chunker = NoChunker
    /\ ask = NoAsk

Next ==
    \/ \E c \in collections, t \in Texts : upload_document(c, t)
    \/ \E c \in collections, t \in Texts : ingest_url(c, t)
    \/ \E j \in Jobs : Start(j)
    \/ \E j \in Jobs : Parse(j)
    \/ \E j \in Jobs : Chunk(j)
    \/ \E j \in Jobs : Embed(j)
    \/ \E j \in Jobs : Persist(j)
    \/ \E j \in Jobs : Complete(j)
    \/ Restart

Spec == Init /\ [][Next]_vars

(***************************************************************************)
(* Retrieval: HybridRetriever (retrieval.py).                              *)
(* Scores are exact fractions [n, d]; vector_weight is given in tenths, so *)
(* every fused score below is ten times the score of the code.             *)
(***************************************************************************)
SearchChunks == 1..MaxChunk
SearchCollections == {1, 2}
\* vector_weight in tenths: 0, 0.5, the default 0.7, and 1
Weights == {0, 5, 7, 10}

Perms(S) == {f \in [1..Cardinality(S) -> S] : \A i, k \in DOMAIN f : i # k => f[i] # f[k]}
PartialPerms(S) == UNION {Perms(T) : T \in SUBSET S}

Ids(rs) == {rs[i] : i \in DOMAIN rs}
FirstN(seq, n) == SubSeq(seq, 1, IF n < Len(seq) THEN n ELSE Len(seq))

\* the ids of the chunks of a collection, in primary-key order
chunks_of(coll, c) ==
    LET InC(id) == coll[id] = c
    IN SelectSeq([i \in DOMAIN coll |-> i], InC)

\* a query without the WHERE clause of line 53
in_collection_any(coll, id, collection_id) == TRUE

\* line 53: WHERE d.collection_id = :collection_id
in_collection(coll, id, collection_id) == coll[id] = collection_id

\* vector_search: the chunks of the collection ordered by distance to the
\* query embedding, LIMIT top_k.  "order" ranks every chunk of the store.
vector_search(coll, order, collection_id, top_k) ==
    LET InC(id) == in_collection(coll, id, collection_id)
    IN FirstN(SelectSeq(order, InC), top_k)

\* keyword_search: "ranked" lists the indexed chunk ids with a BM25 score
\* above zero, best first (argsort, reversed, zero scores dropped); an index
\* that was never built gives [].  With top_k = 0 the slice [-0:] keeps the
\* whole array.
keyword_search(indexed, ranked, top_k) ==
    IF indexed = <<>> THEN <<>>
    ELSE IF top_k = 0 THEN ranked ELSE FirstN(ranked, top_k)

Frac(n, d) == [n |-> n, d |-> d]
FracAdd(f, g) == Frac(f.n * g.d + g.n * f.d, f.d * g.d)
FracGT(f, g) == f.n * g.d > g.n * f.d
FracEQ(f, g) == f.n * g.d = g.n * f.d

\* scores[chunk_id] = scores.get(chunk_id, 0) + f, keeping insertion order
DictAdd(scores, id, f) ==
    IF \E i \in DOMAIN scores : scores[i].chunk_id = id
    THEN [i \in DOMAIN scores |->
             IF scores[i].chunk_id = id
             THEN [scores[i] EXCEPT !.score = FracAdd(@, f)] ELSE scores[i]]
    ELSE Append(scores, [chunk_id |-> id, score |-> f])

\* a fusion that numbers the ranks from 1 (enumerate(..., start=1))
rrf_term_one_based(weight, rank) == Frac(weight, k_rrf + rank + 2)

\* lines 119 and 126: weight / (k + rank + 1) for the 0-based rank of
\* enumerate
rrf_term(weight, rank) == Frac(weight, k_rrf + rank + 1)

\* lines 117-120: for rank, (chunk_id, score) in enumerate(vector_results)
RECURSIVE AddVector(_, _, _, _)
AddVector(scores, vector_results, w, i) ==
    IF i > Len(vector_results) THEN scores
    ELSE AddVector(DictAdd(scores, vector_results[i], rrf_term(w, i - 1)),
                   vector_results, w, i + 1)

\* a fusion loop without the membership test of line 124
keyword_gate_open(chunk_id, vector_results) == TRUE

\* line 124: if chunk_id in [c[0] for c in vector_results]
keyword_gate(chunk_id, vector_results) == chunk_id \in Ids(vector_results)

\* lines 123-127: for rank, (chunk_id, score) in enumerate(keyword_results)
RECURSIVE AddKeyword(_, _, _, _, _)
AddKeyword(scores, keyword_results, vector_results, w, i) ==
    IF i > Len(keyword_results) THEN scores
    ELSE AddKeyword(
             IF keyword_gate(keyword_results[i], vector_results)
             THEN DictAdd(scores, keyword_results[i], rrf_term(10 - w, i - 1))
             ELSE scores,
             keyword_results, vector_results, w, i + 1)

\* sorted(..., key=score, reverse=True): a stable sort, equal scores keep
\* the order of the dictionary
RECURSIVE SortedDesc(_)
SortedDesc(items) ==
    IF items = <<>> THEN <<>>
    ELSE LET rest == SortedDesc(Tail(items))
             x == Head(items)
             Before(y) == FracGT(y.score, x.score)
             NotBefore(y) == ~FracGT(y.score, x.score)
         IN SelectSeq(rest, Before) \o <<x>> \o SelectSeq(rest, NotBefore)

\* lines 112-150.  Every id of sorted_chunks is the id of a stored chunk
\* (no operation deletes chunks), so the hydration keeps all of them.
fuse(vector_results, keyword_results, top_k, w) ==
    LET scores == AddKeyword(AddVector(<<>>, vector_results, w, 1),
                             keyword_results, vector_results, w, 1)
    IN FirstN(SortedDesc(scores), top_k)

hybrid_search(coll, order, indexed, ranked, collection_id, top_k, w) ==
    fuse(vector_search(coll, order, collection_id, top_k * 2),
         keyword_search(indexed, ranked, top_k * 2), top_k, w)

\* one call of hybrid_search on the inputs drawn by InitSearch
HybridSearch ==
    /\ sq.phase = "ready"
    /\ sq' = [sq EXCEPT !.phase = "done",
                        !.results = hybrid_search(sq.coll, sq.order, sq.indexed,
                                                  sq.ranked, sq.collection_id,
                                                  sq.top_k, sq.vector_weight)]
    /\ UNCHANGED <<documents, ingest_jobs, chunks, tasks, submissions, chunker, ask>>

\* The store holds chunks 1..MaxChunk spread over the collections; the
\* retriever's index was last built over the chunks of some collection
\* (build_bm25_index in ask_question; the module-level retriever is shared
\* by all requests) or never (index_of = 0).
InitSearch ==
    /\ documents = <<>>
    /\ ingest_jobs = <<>>
    /\ chunks = {}
    /\ tasks = <<>>
    /\ submissions = <<>>
    /\ chunker = NoChunker
    /\ ask = NoAsk
    /\ \E coll \in [SearchChunks -> SearchCollections],
          order \in Perms(SearchChunks),
          index_of \in SearchCollections \cup {0},
          c \in SearchCollections,
          top_k \in 1..MaxTopK,
          w \in Weights :
          \E ranked \in PartialPerms(Ids(chunks_of(coll, index_of))) :
              sq = [phase |-> "ready", coll |-> coll, order |-> order,
                    indexed |-> chunks_of(coll, index_of), ranked |-> ranked,
                    collection_id |-> c, top_k |-> top_k, vector_weight |-> w,
                    results |-> <<>>]

NextSearch == HybridSearch

SpecSearch == InitSearch /\ [][NextSearch]_vars

(***************************************************************************)
(* Chunker: DocumentChunker.chunk_text and chunk_markdown (chunking.py)    *)
(* applied to bounded texts, and the Chunk rows process_document builds    *)
(* from the output of chunk_text.                                          *)
(***************************************************************************)
\* token counts of a sentence: one that fits several times into chunk_size
\* and one that exceeds it
TokenSizes == {300, 900}

\* a paragraph without sentence is a whitespace-only paragraph
Paragraphs == UNION {[1..n -> TokenSizes] : n \in 0..MaxSents}

\* text.strip() leaves no whitespace-only paragraph at either end
ChunkerTexts ==
    {text \in UNION {[1..n -> Paragraphs] : n \in 0..MaxParas} :
        text # <<>> => text[1] # <<>> /\ text[Len(text)] # <<>>}

\* chunk_markdown without the loop of lines 166-167
reindex_none(cs) == cs

\* lines 165-167: for i, chunk in enumerate(chunks): chunk['chunk_index'] = i
reindex(cs) == [i \in DOMAIN cs |-> [cs[i] EXCEPT !.chunk_index = i - 1]]

\* lines 140-155, paragraph by paragraph: a paragraph whose first line is a
\* header closes the section collected so far and starts the next one
RECURSIVE MarkdownLoop(_, _, _, _)
MarkdownLoop(acc, text, headers, p) ==
    IF p > Len(text) THEN acc
    ELSE MarkdownLoop(
             IF p \in headers
             THEN [chunks |-> IF acc.current_section # <<>>
                              THEN acc.chunks \o chunk_text(acc.current_section)
                              ELSE acc.chunks,
                   current_section |-> <<text[p]>>]
             ELSE [acc EXCEPT !.current_section = Append(@, text[p])],
             text, headers, p + 1)

\* "headers" is the set of paragraphs that begin with a header line.  The
\* header stored in meta_data is left out of the chunk records.
chunk_markdown(text, headers) ==
    LET acc == MarkdownLoop([chunks |-> <<>>, current_section |-> <<>>],
                            text, headers, 1)
    IN reindex(IF acc.current_section # <<>>
               THEN acc.chunks \o chunk_text(acc.current_section)
               ELSE acc.chunks)

ChunkTextCall ==
    /\ chunker.phase = "on"
    /\ "chunk_text" \notin chunker.done
    /\ chunker' = [chunker EXCEPT !.done = @ \cup {"chunk_text"},
                                  !.out = chunk_text(chunker.text)]
    /\ UNCHANGED <<documents, ingest_jobs, chunks, tasks, submissions, sq, ask>>

ChunkMarkdownCall ==
    /\ chunker.phase = "on"
    /\ "chunk_markdown" \notin chunker.done
    /\ chunker' = [chunker EXCEPT !.done = @ \cup {"chunk_markdown"},
                                  !.md_out = chunk_markdown(chunker.text,
                                                            chunker.headers)]
    /\ UNCHANGED <<documents, ingest_jobs, chunks, tasks, submissions, sq, ask>>

\* ingest.py lines 64-85 on the output of chunk_text: embed, then one Chunk
\* row per chunk, in the order of the list
StoreChunks ==
    /\ chunker.phase = "on"
    /\ "chunk_text" \in chunker.done
    /\ "store" \notin chunker.done
    /\ ~embed_batch_raises(chunker.out)
    /\ chunker' = [chunker EXCEPT !.done = @ \cup {"store"},
                                  !.rows = ChunkRowSeq(1, chunker.out)]
    /\ UNCHANGED <<documents, ingest_jobs, chunks, tasks, submissions, sq, ask>>

InitChunk ==
    /\ documents = <<>>
    /\ ingest_jobs = <<>>
    /\ chunks = {}
    /\ tasks = <<>>
    /\ submissions = <<>>
    /\ sq = NoSq
    /\ ask = NoAsk
    /\ \E text \in ChunkerTexts :
          \E headers \in SUBSET {p \in DOMAIN text : text[p] # <<>>} :
              chunker = [phase |-> "on", text |-> text, headers |-> headers,
                         done |-> {}, out |-> <<>>, md_out |-> <<>>,
                         rows |-> <<>>]

NextChunk ==
    \/ ChunkTextCall
    \/ ChunkMarkdownCall
    \/ StoreChunks

SpecChunk == InitChunk /\ [][NextChunk]_vars

(***************************************************************************)
(* Queries: ask_question (query.py) on the module-level HybridRetriever.   *)
(* ask_question is a plain "def": FastAPI runs each call in a worker       *)
(* thread, so calls interleave between their accesses to the retriever;    *)
(* the steps of one call that touch only its locals and its own database   *)
(* session are joined to the next access.                                  *)
(***************************************************************************)
\* the stored chunks (id = position) and the collection of their document;
\* collection 3 exists and is empty, collection 4 does not exist
ask_coll == <<1, 1, 2>>
AskCollections == {1, 2, 3}
RequestedCollections == AskCollections \cup {4}
AskTopKs == {0, 1, 2}
\* the requests of the model: hybrid queries with top_k = 1 on the
\* collections that hold chunks, a hybrid query with top_k = 0, vector-only
\* queries that ask for every chunk of the collection (top_k = 2 on
\* collection 1, top_k = 1 on collection 2), and a default query on the
\* empty and on the missing collection
AskInputs ==
    {in \in [collection_id : RequestedCollections, top_k : AskTopKs,
             use_hybrid : BOOLEAN] :
        /\ in.top_k = 0 => in.collection_id = 1 /\ in.use_hybrid
        /\ in.top_k = 2 => in.collection_id = 1 /\ ~in.use_hybrid
        /\ (in.collection_id = 1 /\ ~in.use_hybrid) => in.top_k = 2
        /\ in.collection_id \in {3, 4} => in.use_hybrid /\ in.top_k = 1}
\* share of the query words found in the contexts, in percent
Overlaps == {0, 50, 100}

Snapshot(c) == chunks_of(ask_coll, c)

\* the chunk list a retriever field was built over; 0 is the value given by
\* __init__ (bm25_index = None, chunk_ids = [])
Population(r) ==
    IF r = 0 THEN <<>> ELSE Snapshot(ask.requests[r].collection_id)

NewRequest(c, top_k, h, pc) ==
    [collection_id |-> c, top_k |-> top_k, use_hybrid |-> h, pc |-> pc,
     index_read |-> 0, ids_read |-> 0,
     results |-> <<>>, answer |-> ""]

\* LLMService.check_answerability, in hundredths
check_answerability(overlap, contexts) ==
    IF contexts = <<>> THEN 0
    ELSE IF 30 + overlap \div 2 < 100 THEN 30 + overlap \div 2 ELSE 100

\* the confidences the questions of the model can get on these contexts
Confidences(contexts) ==
    {check_answerability(overlap, contexts) : overlap \in Overlaps}

\* the results vector_search can give, over the embeddings a question can
\* have
VectorResults(collection_id, top_k) ==
    {vector_search(ask_coll, order, collection_id, top_k) :
        order \in Perms(DOMAIN ask_coll)}

\* retrieval.py lines 82-89: the positions, in the population of the index
\* written by request r, of the best documents with a score above zero
KeywordPositions(r, top_k) ==
    {keyword_search(Population(r), ranked, top_k) :
        ranked \in PartialPerms(DOMAIN Population(r))}

\* lines 146-148 of submit_feedback
submit_feedback(queries, query_id) ==
    IF query_id \in DOMAIN queries THEN "ok" ELSE "http_404"

\* a number for each input.  The requests of a state are listed in the
\* order of these numbers: AskStart touches nothing that is shared, so a run
\* in which the calls arrive in another order has the same steps up to the
\* numbering of the requests.
InputRank(c, top_k, h) == 4 * c + 2 * top_k + (IF h THEN 1 ELSE 0)

\* lines 37-48: the collection, its chunks
AskStart(c, top_k, h) ==
    /\ ask.phase = "on"
    /\ Len(ask.requests) < MaxRequests
    /\ ask.requests # <<>> =>
           LET last == ask.requests[Len(ask.requests)]
           IN InputRank(last.collection_id, last.top_k, last.use_hybrid)
                  <= InputRank(c, top_k, h)
    /\ ask' = [ask EXCEPT !.requests = Append(@,
                   NewRequest(c, top_k, h,
                              IF c \notin AskCollections THEN "http_404"
                              ELSE IF Snapshot(c) = <<>> THEN "http_400"
                              ELSE "build_index"))]
    /\ UNCHANGED <<documents, ingest_jobs, chunks, tasks, submissions, sq, chunker>>

\* retrieval.py line 24: self.bm25_index = BM25Okapi(tokenized_chunks)
BuildIndex(r) ==
    /\ ask.phase = "on"
    /\ r \in DOMAIN ask.requests
    /\ ask.requests[r].pc = "build_index"
    /\ ask' = [ask EXCEPT !.bm25_index = r, !.requests[r].pc = "build_ids"]
    /\ UNCHANGED <<documents, ingest_jobs, chunks, tasks, submissions, sq, chunker>>

\* retrieval.py line 25: self.chunk_ids = [chunk.id for chunk in chunks]
BuildIds(r) ==
    /\ ask.phase = "on"
    /\ r \in DOMAIN ask.requests
    /\ ask.requests[r].pc = "build_ids"
    /\ ask' = [ask EXCEPT !.chunk_ids = r,
                          !.requests[r].pc = IF ask.requests[r].use_hybrid
                                             THEN "keyword_scores"
                                             ELSE "vector_only"]
    /\ UNCHANGED <<documents, ingest_jobs, chunks, tasks, submissions, sq, chunker>>

\* retrieval.py lines 78-85: get_scores on the index found in
\* self.bm25_index.  The scores depend on the question only, so the ranking
\* they give is drawn where it is used, in KeywordIds.
KeywordScores(r) ==
    /\ ask.phase = "on"
    /\ r \in DOMAIN ask.requests
    /\ ask.requests[r].pc = "keyword_scores"
    /\ ask' = [ask EXCEPT !.requests[r].index_read = ask.bm25_index,
                          !.requests[r].pc = "keyword_ids"]
    /\ UNCHANGED <<documents, ingest_jobs, chunks, tasks, submissions, sq, chunker>>

\* query.py lines 84-134: below 0.05 the fixed answer is returned and no
\* Query row is written
Answer(req, r, results, confidence) ==
    IF confidence < 5
    THEN [ask EXCEPT !.requests[r] =
             [req EXCEPT !.pc = "returned", !.results = results,
                         !.answer = "fixed"]]
    ELSE [ask EXCEPT !.requests[r] =
             [req EXCEPT !.pc = "returned", !.results = results,
                         !.answer = "generated"],
                     !.queries = Append(@, [request |-> r,
                                            answer |-> "generated"])]

\* retrieval.py lines 87-92 (self.chunk_ids[idx] raises IndexError past the
\* end of the list) and 105-150, then the rest of ask_question.  The
\* vector search of line 109 reads only the database.  index_read is the
\* index object held by keyword_search and is dropped when it returns.
KeywordIds(r) ==
    /\ ask.phase = "on"
    /\ r \in DOMAIN ask.requests
    /\ ask.requests[r].pc = "keyword_ids"
    /\ \E pos \in KeywordPositions(ask.requests[r].index_read,
                                     2 * ask.requests[r].top_k) :
       LET req == [ask.requests[r] EXCEPT !.ids_read = ask.chunk_ids,
                                          !.index_read = 0]
           ids == Population(ask.chunk_ids)
       IN IF \E i \in DOMAIN pos : pos[i] > Len(ids)
          THEN ask' = [ask EXCEPT !.requests[r] = [req EXCEPT !.pc = "http_500"]]
          ELSE \E vector_results \in VectorResults(req.collection_id,
                                                   2 * req.top_k) :
                   LET fused == fuse(vector_results,
                                     [i \in DOMAIN pos |-> ids[pos[i]]],
                                     req.top_k, 7)
                       results == [i \in DOMAIN fused |->
                                      [chunk_id |-> fused[i].chunk_id,
                                       score_of |-> fused[i].chunk_id]]
                   IN \E confidence \in Confidences(results) :
                          ask' = Answer(req, r, results, confidence)
    /\ UNCHANGED <<documents, ingest_jobs, chunks, tasks, submissions, sq, chunker>>

\* line 81: zip(chunks_retrieved, vector_results) pairs the i-th row with
\* the i-th score; score_of names the chunk the score was computed for
zip(rows, vector_results) ==
    [i \in DOMAIN rows |-> [chunk_id |-> rows[i], score_of |-> vector_results[i]]]

\* query.py lines 63-82: the rows of the ids found by the vector search
\* come from a query without ORDER BY, in an order the database chooses
VectorOnly(r) ==
    /\ ask.phase = "on"
    /\ r \in DOMAIN ask.requests
    /\ ask.requests[r].pc = "vector_only"
    /\ \E vector_results \in VectorResults(ask.requests[r].collection_id,
                                            ask.requests[r].top_k) :
          \E rows \in Perms(Ids(vector_results)) :
              \E confidence \in Confidences(rows) :
                  ask' = Answer(ask.requests[r], r, zip(rows, vector_results),
                                confidence)
    /\ UNCHANGED <<documents, ingest_jobs, chunks, tasks, submissions, sq, chunker>>

InitAsk ==
    /\ documents = <<>>
    /\ ingest_jobs = <<>>
    /\ chunks = {}
    /\ tasks = <<>>
    /\ submissions = <<>>
    /\ sq = NoSq
    /\ chunker = NoChunker
    /\ ask = [phase |-> "on", bm25_index |-> 0, chunk_ids |-> 0,
              requests |-> <<>>, queries |-> <<>>]

NextAsk ==
    \/ \E in \in AskInputs :
           AskStart(in.collection_id, in.top_k, in.use_hybrid)
    \/ \E r \in 1..MaxRequests : BuildIndex(r)
    \/ \E r \in 1..MaxRequests : BuildIds(r)
    \/ \E r \in 1..MaxRequests : KeywordScores(r)
    \/ \E r \in 1..MaxRequests : KeywordIds(r)
    \/ \E r \in 1..MaxRequests : VectorOnly(r)

SpecAsk == InitAsk /\ [][NextAsk]_vars

(***************************************************************************)
(* Properties.                                                             *)
(***************************************************************************)
JobOf(i) == submissions[i].job_id
Accepted(i) == JobOf(i) # 0
\* the chunk rows stored for a document
ChunksOfDocument(d) == {ch \in chunks : ch.document_id = d}
\* the chunks chunk_text produces for the text of job j
Produced(j) == chunk_text(TextOf(tasks[j].content))

StatusMoves ==
    {<<"pending", "processing">>, <<"processing", "completed">>,
     <<"processing", "failed">>}

\* C1: the persisted status of a job starts as pending and only ever moves
\* pending -> processing -> completed or pending -> processing -> failed;
\* no step changes a status that is completed or failed.
C1_StatusLifecycle ==
    [][\A j \in 1..Len(ingest_jobs') :
          IF j \in Jobs
          THEN \/ ingest_jobs'[j].status = ingest_jobs[j].status
               \/ <<ingest_jobs[j].status, ingest_jobs'[j].status>> \in StatusMoves
          ELSE ingest_jobs'[j].status = "pending"]_vars

\* C1 witness: one job has completed, another has failed, both tasks ended
C1_Witness ==
    \E j, k \in Jobs :
        /\ ingest_jobs[j].status = "completed" /\ Ended(tasks[j])
        /\ ingest_jobs[k].status = "failed" /\ Ended(tasks[k])

\* C2: atomicity of ingestion: a completed job has every chunk produced for
\* its document persisted, and a job that failed - whichever step of the
\* pipeline raised, the final status write included - has no chunk persisted
\* for its document.
C2_Atomicity ==
    \A j \in Jobs :
        /\ ingest_jobs[j].status = "completed" =>
               {ch.chunk_index : ch \in ChunksOfDocument(ingest_jobs[j].document_id)}
                   = {Produced(j)[i].chunk_index : i \in 1..Len(Produced(j))}
        /\ (ingest_jobs[j].status = "failed" \/ tasks[j].raised_at # "none") =>
               ChunksOfDocument(ingest_jobs[j].document_id) = {}

\* C3: of two submissions with the same parsed text into the same collection
\* whose processing has returned without any step raising, exactly one job is
\* completed and the other is refused as a duplicate (failed with
\* DuplicateDocument; an upload refused with 400 is counted as refused too).
C3_DedupOneCompletes ==
    \A a, b \in 1..Len(submissions) :
        LET Settled(i) == Accepted(i) => /\ tasks[JobOf(i)].pc = "returned"
                                         /\ tasks[JobOf(i)].raised_at = "none"
            Completed(i) == Accepted(i) /\ ingest_jobs[JobOf(i)].status = "completed"
            Refused(i) == IF Accepted(i)
                          THEN /\ ingest_jobs[JobOf(i)].status = "failed"
                               /\ ingest_jobs[JobOf(i)].error_message = "DuplicateDocument"
                          ELSE TRUE
        IN (/\ a < b
            /\ submissions[a].text = submissions[b].text
            /\ submissions[a].collection_id = submissions[b].collection_id
            /\ Settled(a) /\ Settled(b))
           => \/ Completed(a) /\ ~Completed(b) /\ Refused(b)
              \/ Completed(b) /\ ~Completed(a) /\ Refused(a)

\* C4: no two Document rows carry the same non-empty checksum.
C4_ChecksumUnique ==
    \A d, e \in 1..Len(documents) :
        (d # e /\ documents[d].checksum # NoChecksum)
            => documents[d].checksum # documents[e].checksum

\* C4 witness: an upload has stored a checksum and a later upload of the
\* same text has been refused
C4_Witness ==
    \E a, b \in 1..Len(submissions) :
        /\ a < b /\ Accepted(a) /\ ~Accepted(b)
        /\ submissions[a].text = submissions[b].text
        /\ documents[ingest_jobs[JobOf(a)].document_id].checksum
               = calculate_checksum(submissions[b].text)

\* C5: for URL ingestion the checksum of the parsed text is computed in the
\* parse stage, and when a document with that checksum existed before the
\* submission the job (no step of which raised for another reason) ends
\* failed with DuplicateDocument and the number of Document rows is the one
\* before the submission.
C5_UrlDedup ==
    \A i \in 1..Len(submissions) :
        (submissions[i].kind = "url" /\ Accepted(i)) =>
            LET j == JobOf(i)
                ck == calculate_checksum(submissions[i].text)
                prior == \E d \in 1..submissions[i].documents_before :
                             documents[d].checksum = ck
            IN (/\ prior
                /\ tasks[j].pc = "returned"
                /\ tasks[j].raised_at = "none")
               => /\ ingest_jobs[j].status = "failed"
                  /\ ingest_jobs[j].error_message = "DuplicateDocument"
                  /\ ingest_jobs[j].document_id <= submissions[i].documents_before

\* C6: when a stage or a job-record write fails, process_document returns
\* without raising and the job record ends failed with a non-empty
\* error_message; a job whose task has ended is completed or failed.
C6_WorkerNeverRaises ==
    \A j \in Jobs :
        /\ tasks[j].pc # "raised"
        /\ tasks[j].pc = "returned" =>
               \/ ingest_jobs[j].status = "completed"
               \/ /\ ingest_jobs[j].status = "failed"
                  /\ ingest_jobs[j].error_message # ""

\* C7: after a restart every job that was pending or processing is failed
\* with error_message "interrupted".
C7_StartupSweep ==
    \A j \in Jobs :
        tasks[j].pc = "killed" =>
            /\ ingest_jobs[j].status = "failed"
            /\ ingest_jobs[j].error_message = "interrupted"

\* C8: the progress values persisted for a job never decrease and lie in
\* 0..100, the writes of the failure handler included.
C8_ProgressMonotone ==
    [][\A j \in 1..Len(ingest_jobs') :
          /\ ingest_jobs'[j].progress \in 0..100
          /\ j \in Jobs => ingest_jobs[j].progress <= ingest_jobs'[j].progress]_vars

\* C8 witness: the failure handler has written a job whose progress had
\* advanced, and another job has reached 100
C8_Witness ==
    /\ \E j \in Jobs : ingest_jobs[j].status = "failed" /\ ingest_jobs[j].progress >= 30
    /\ \E j \in Jobs : ingest_jobs[j].progress = 100

\* C9 as stated: when a submission has returned and its task has not
\* started, the job is pending and no stage (parse, dedup, chunk, embed,
\* persist) of it has run.
C9_NoStageBeforeReturn ==
    \A i \in 1..Len(submissions) :
        (Accepted(i) /\ tasks[JobOf(i)].pc = "queued") =>
            /\ ingest_jobs[JobOf(i)].status = "pending"
            /\ submissions[i].sync_stages = {}
            /\ tasks[JobOf(i)].stages = <<>>

\* C9 amended: when a submission has returned and its task has not started,
\* the job is pending with progress 0, no stage of process_document has run
\* and no chunk is stored; ingest_url has run no stage at all, while
\* upload_document has parsed the file and checked for a duplicate.
C9_NoTaskStageBeforeReturn ==
    \A i \in 1..Len(submissions) :
        (Accepted(i) /\ tasks[JobOf(i)].pc = "queued") =>
            /\ ingest_jobs[JobOf(i)].status = "pending"
            /\ ingest_jobs[JobOf(i)].progress = 0
            /\ tasks[JobOf(i)].stages = <<>>
            /\ ChunksOfDocument(ingest_jobs[JobOf(i)].document_id) = {}
            /\ submissions[i].sync_stages =
                   IF submissions[i].kind = "url" THEN {} ELSE {"parse", "dedup"}

\* C9 witness: an upload and a URL submission have both returned and
\* neither task has started
C9_Witness ==
    \E a, b \in 1..Len(submissions) :
        /\ submissions[a].kind = "upload" /\ submissions[b].kind = "url"
        /\ Accepted(a) /\ Accepted(b)
        /\ tasks[JobOf(a)].pc = "queued" /\ tasks[JobOf(b)].pc = "queued"

\* C10: the chunk ids returned by hybrid_search are among the ids returned
\* by the vector search for 2 * top_k; a chunk that only BM25 ranks never
\* appears in the result.
C10_HybridSubsetOfVector ==
    sq.phase = "done" =>
        LET vector_ids == Ids(vector_search(sq.coll, sq.order, sq.collection_id,
                                            2 * sq.top_k))
            result_ids == {sq.results[i].chunk_id : i \in DOMAIN sq.results}
            keyword_ids == Ids(keyword_search(sq.indexed, sq.ranked, 2 * sq.top_k))
        IN /\ result_ids \subseteq vector_ids
           /\ \A id \in keyword_ids \ vector_ids : id \notin result_ids

\* C10 witness: a search has returned results while BM25 ranked a chunk
\* that the vector list does not contain
C10_Witness ==
    /\ sq.phase = "done"
    /\ sq.results # <<>>
    /\ Ids(keyword_search(sq.indexed, sq.ranked, 2 * sq.top_k))
           \ Ids(vector_search(sq.coll, sq.order, sq.collection_id, 2 * sq.top_k))
       # {}

\* C11: hybrid_search returns at most top_k results in descending order of
\* fused score, and two results with the same fused score appear in
\* ascending order of chunk_id.
C11_DescendingTiesByChunkId ==
    sq.phase = "done" =>
        /\ Len(sq.results) <= sq.top_k
        /\ \A i, k \in DOMAIN sq.results :
               i < k => \/ FracGT(sq.results[i].score, sq.results[k].score)
                        \/ /\ FracEQ(sq.results[i].score, sq.results[k].score)
                           /\ sq.results[i].chunk_id < sq.results[k].chunk_id

\* C16: the fused score of a returned chunk is vector_weight / (60 + r_v + 1)
\* for its 0-based vector rank r_v, plus (1 - vector_weight) / (60 + r_b + 1)
\* for its 0-based BM25 rank r_b when BM25 ranks it; only chunks of the
\* vector list are scored; and for vector order c1 > c3 > c2, BM25 order
\* c1 > c3 and vector_weight 0.7 the result order is [c1, c3, c2].
C16_FusedScoreFormula ==
    sq.phase = "done" =>
        LET V == vector_search(sq.coll, sq.order, sq.collection_id, 2 * sq.top_k)
            B == keyword_search(sq.indexed, sq.ranked, 2 * sq.top_k)
            w == sq.vector_weight
            Rank0(seq, id) == (CHOOSE i \in DOMAIN seq : seq[i] = id) - 1
            Expected(id) ==
                IF id \in Ids(B)
                THEN FracAdd(Frac(w, 60 + Rank0(V, id) + 1),
                             Frac(10 - w, 60 + Rank0(B, id) + 1))
                ELSE Frac(w, 60 + Rank0(V, id) + 1)
        IN /\ \A i \in DOMAIN sq.results :
                  /\ sq.results[i].chunk_id \in Ids(V)
                  /\ FracEQ(sq.results[i].score, Expected(sq.results[i].chunk_id))
           /\ (V = <<1, 3, 2>> /\ B = <<1, 3>> /\ w = 7 /\ sq.top_k >= 3)
                  => [i \in DOMAIN sq.results |-> sq.results[i].chunk_id]
                         = <<1, 3, 2>>

\* C16 witness: the search of the example (vector order c1 > c3 > c2, BM25
\* order c1 > c3, vector_weight 0.7) has returned three results
C16_Witness ==
    /\ sq.phase = "done"
    /\ vector_search(sq.coll, sq.order, sq.collection_id, 2 * sq.top_k) = <<1, 3, 2>>
    /\ keyword_search(sq.indexed, sq.ranked, 2 * sq.top_k) = <<1, 3>>
    /\ sq.vector_weight = 7
    /\ Len(sq.results) = 3

\* the units of a text in source order: each non-empty paragraph that fits
\* chunk_size, and each sentence of a paragraph that exceeds it
RECURSIVE InputUnits(_, _)
InputUnits(text, p) ==
    IF p > Len(text) THEN <<>>
    ELSE (IF SumSeq(text[p]) > chunk_size
          THEN [s \in 1..Len(text[p]) |-> [p |-> p, s |-> s, tokens |-> text[p][s]]]
          ELSE IF text[p] = <<>> THEN <<>>
               ELSE <<[p |-> p, s |-> 0, tokens |-> SumSeq(text[p])]>>)
         \o InputUnits(text, p + 1)

\* the token count of the largest sentence of a text
MaxSentence(text) ==
    LET all == {text[p][s] : <<p, s>> \in
                   {ps \in (DOMAIN text) \X (1..MaxSents + 1) :
                       ps[2] \in DOMAIN text[ps[1]]}}
    IN IF all = {} THEN 0 ELSE CHOOSE m \in all : \A n \in all : n <= m

DenseIndexes(cs) == {cs[i].chunk_index : i \in DOMAIN cs} = 0..(Len(cs) - 1)

\* C12: the chunk_index values of every output of chunk_text and of
\* chunk_markdown, and of the N chunk rows stored for a document, are
\* exactly 0..N-1, without gap or repeat.
C12_DenseChunkIndex ==
    /\ "chunk_text" \in chunker.done => DenseIndexes(chunker.out)
    /\ "chunk_markdown" \in chunker.done => DenseIndexes(chunker.md_out)
    /\ "store" \in chunker.done => DenseIndexes(chunker.rows)

\* C12 witness: chunk_text has produced several chunks that were stored,
\* and chunk_markdown has chunked a text of two sections
C12_Witness ==
    /\ chunker.done = {"chunk_text", "chunk_markdown", "store"}
    /\ Len(chunker.rows) >= 2
    /\ Cardinality(chunker.headers) >= 2
    /\ Len(chunker.md_out) >= 2

\* C13: chunk_text loses no input: every non-empty paragraph, and every
\* sentence of a paragraph that exceeds chunk_size - a sentence that alone
\* exceeds chunk_size included - appears in at least one emitted chunk, and
\* the chunks follow the source order.
C13_NoInputLost ==
    "chunk_text" \in chunker.done =>
        LET units == InputUnits(chunker.text, 1)
            out == chunker.out
            Pos(u) == CHOOSE i \in DOMAIN units : units[i] = u
        IN /\ \A i \in DOMAIN units :
                  \E c \in DOMAIN out : \E k \in DOMAIN out[c].text :
                      out[c].text[k] = units[i]
           /\ \A c \in DOMAIN out : \A k, l \in DOMAIN out[c].text :
                  k < l => Pos(out[c].text[k]) < Pos(out[c].text[l])
           /\ \A c, e \in DOMAIN out :
                  c < e => Pos(out[c].text[Len(out[c].text)])
                               < Pos(out[e].text[Len(out[e].text)])

\* C14: every chunk emitted by chunk_text, the chunks seeded with an
\* overlap included, has token_count at most chunk_size plus the token count
\* of the largest sentence of the input.
C14_TokenCountBound ==
    "chunk_text" \in chunker.done =>
        \A c \in DOMAIN chunker.out :
            chunker.out[c].token_count <= chunk_size + MaxSentence(chunker.text)

\* C15: whenever ask_question has returned the fixed insufficient-information
\* answer, a Query row holding that answer is stored, so that feedback can
\* be submitted for it.
C15_ShortCircuitPersisted ==
    ask.phase = "on" =>
        \A r \in DOMAIN ask.requests :
            ask.requests[r].answer = "fixed" =>
                \E q \in DOMAIN ask.queries :
                    /\ ask.queries[q].request = r
                    /\ ask.queries[q].answer = "fixed"
                    /\ submit_feedback(ask.queries, q) = "ok"

\* C17: every chunk returned by ask_question for a collection belongs to a
\* document of that collection, whatever the interleaving of the calls that
\* share the retriever.
C17_ResultsInCollection ==
    ask.phase = "on" =>
        \A r \in DOMAIN ask.requests :
            \A i \in DOMAIN ask.requests[r].results :
                ask_coll[ask.requests[r].results[i].chunk_id]
                    = ask.requests[r].collection_id

\* C17 witness: a hybrid query has returned chunks after its keyword search
\* read the chunk-id list that a query on another collection had written
C17_Witness ==
    /\ ask.phase = "on"
    /\ \E r, o \in DOMAIN ask.requests :
           /\ ask.requests[r].collection_id # ask.requests[o].collection_id
           /\ ask.requests[r].pc = "returned"
           /\ ask.requests[r].results # <<>>
           /\ ask.requests[r].ids_read = o

\* C18: the index and the chunk-id list that the keyword search of a query
\* reads were built over that query's own snapshot of its collection, and
\* describe the same chunks; no interleaving makes it read what a query on
\* other chunks has written.
C18_OwnIndex ==
    ask.phase = "on" =>
        \A r \in DOMAIN ask.requests :
            LET own == Snapshot(ask.requests[r].collection_id)
            IN /\ ask.requests[r].index_read # 0 =>
                      Population(ask.requests[r].index_read) = own
               /\ ask.requests[r].ids_read # 0 =>
                      Population(ask.requests[r].ids_read) = own

\* C19: a reader concurrent with ingestion sees, for each document, none of
\* its chunks or all of them (the rows of a document become visible in one
\* commit), and every visible chunk has its embedding.
C19_ChunksAllOrNone ==
    /\ \A j \in Jobs :
           LET visible == ChunksOfDocument(ingest_jobs[j].document_id)
           IN \/ visible = {}
              \/ {ch.chunk_index : ch \in visible}
                     = {Produced(j)[i].chunk_index : i \in 1..Len(Produced(j))}
    /\ \A ch \in chunks : ch.embedding = "embedding"

\* C19 witness: while one job is still processing with the several chunks of
\* its document visible, another is processing with none visible
C19_Witness ==
    \E j, k \in Jobs :
        /\ ingest_jobs[j].status = "processing"
        /\ Cardinality(ChunksOfDocument(ingest_jobs[j].document_id)) >= 2
        /\ ingest_jobs[k].status = "processing"
        /\ tasks[k].pc = "persist"
        /\ ChunksOfDocument(ingest_jobs[k].document_id) = {}

\* the stages of the claim in their order
StageNo(stage) ==
    CASE stage = "parse" -> 1
      [] stage = "dedup" -> 2
      [] stage = "chunk" -> 3
      [] stage = "embed" -> 4
      [] stage = "persist" -> 5

\* C20: the stages of a job run in the order parse, dedup check, chunk,
\* embed, persist; its progress is 10 only once parse has finished, 30 once
\* the dedup check has, 50 once chunking has, 80 once embedding has and 100
\* once the chunks are persisted; a job that fails inside parse shows
\* progress 0 and one that fails inside chunking shows progress 30.  (The
\* parse and the duplicate check that upload_document runs before it
\* creates the job are counted as finished stages of the job.)
C20_ProgressAfterStage ==
    \A i \in 1..Len(submissions) :
        Accepted(i) =>
            LET j == JobOf(i)
                stages == tasks[j].stages
                progress == ingest_jobs[j].progress
                Finished(st) ==
                    \/ st \in submissions[i].sync_stages
                    \/ /\ \E n \in DOMAIN stages : stages[n] = st
                       /\ tasks[j].raised_at # st
            IN /\ \A m, n \in DOMAIN stages :
                      m < n => StageNo(stages[m]) < StageNo(stages[n])
               /\ progress >= 10 => Finished("parse")
               /\ progress >= 30 => Finished("dedup")
               /\ progress >= 50 => Finished("chunk")
               /\ progress >= 80 => Finished("embed")
               /\ progress >= 100 => Finished("persist")
               /\ tasks[j].raised_at = "parse" => progress = 0
               /\ tasks[j].raised_at = "chunk" => progress = 30

\* C21: after a job for some content has ended failed - and no other job
\* for that content is pending, processing or completed - a new submission
\* of the same content is accepted and creates a new job: the Document row
\* left by the failed job does not make it a duplicate.
C21_RetryAccepted ==
    [][Len(submissions') = Len(submissions) + 1 =>
          LET new == submissions'[Len(submissions')]
              SameContent(j) == tasks[j].content = new.text
          IN (/\ \E j \in Jobs : SameContent(j) /\ ingest_jobs[j].status = "failed"
              /\ \A j \in Jobs : SameContent(j) => ingest_jobs[j].status = "failed")
             => /\ new.job_id # 0
                /\ Len(ingest_jobs') = Len(ingest_jobs) + 1]_vars

\* C22: a job whose parsed text is empty never is completed and never has a
\* chunk stored: chunk_text returns the empty list, embed_batch raises on it,
\* and when process_document has returned after parsing the job is failed
\* with progress 50.
C22_EmptyTextFails ==
    \A j \in Jobs :
        TextOf(tasks[j].content) = <<>> =>
            /\ ingest_jobs[j].status # "completed"
            /\ ChunksOfDocument(ingest_jobs[j].document_id) = {}
            /\ tasks[j].pc \notin {"persist", "complete"}
            /\ tasks[j].pc = "embed" =>
                   tasks[j].chunks_data = <<>> /\ ingest_jobs[j].progress = 50
            /\ (tasks[j].pc = "returned" /\ tasks[j].raised_at # "parse") =>
                   /\ tasks[j].raised_at = "embed"
                   /\ ingest_jobs[j].status = "failed"
                   /\ ingest_jobs[j].progress = 50
                   /\ ingest_jobs[j].error_message # ""

\* C22 witness: the job of an empty text has been marked failed by the
\* handler after embed_batch raised
C22_Witness ==
    \E j \in Jobs :
        /\ TextOf(tasks[j].content) = <<>>
        /\ tasks[j].pc = "returned"
        /\ tasks[j].raised_at = "embed"
        /\ ingest_jobs[j].status = "failed"
        /\ ingest_jobs[j].progress = 50

\* C23: in vector-only mode every result of ask_question pairs a chunk with
\* the similarity computed for that chunk, and the results are in descending
\* order of similarity, whatever order the database returns the rows in.
C23_VectorOnlyPairing ==
    ask.phase = "on" =>
        \A r \in DOMAIN ask.requests :
            ~ask.requests[r].use_hybrid =>
                LET results == ask.requests[r].results
                    \* vector_search lists the scores best first
                    RankOf(id) == CHOOSE n \in DOMAIN results :
                                      results[n].score_of = id
                IN /\ \A i \in DOMAIN results :
                          results[i].score_of = results[i].chunk_id
                   /\ \A i, k \in DOMAIN results :
                          i < k => RankOf(results[i].chunk_id)
                                       < RankOf(results[k].chunk_id)

====
